---- MODULE Spec2Model ----
(***************************************************************************)
(* A model of pxtblocks/fields/field_asset.ts: one FieldAssetEditor on a   *)
(* block, the tilemap project it shares assets with, the editor view it    *)
(* opens, and the Blockly undo stack that replays BlocklyTilemapChange.    *)
(*                                                                         *)
(* Every method of the field is an operator from a state record to a state *)
(* record, so that a method calling another one is a composition and a     *)
(* handler is one action.  The project notifies change listeners           *)
(* synchronously from updateAsset, which is how assetChangeListener comes  *)
(* to run in the middle of a handler.                                      *)
(***************************************************************************)
EXTENDS Integers, Sequences, FiniteSets, TLC

VARIABLES
    asset,          \* this.asset (Undefined when the field has none)
    isGreyBlock,    \* this.isGreyBlock
    pendingEdit,    \* this.pendingEdit
    undoRedoState,  \* this.undoRedoState ("" when never set)
    valueText,      \* FieldBase.valueText
    blockData,      \* the block's stored asset id (getBlockData / setBlockData)
    preview,        \* what redrawPreview last drew
    store,          \* the project's assets, by id
    revision,       \* project.revision()
    nextID,         \* the project's revision counter
    listeners,      \* the assets (type and id) this field's listener is registered on
    projUndo,       \* the project's undo snapshots
    projRedo,       \* the project's redo snapshots
    eventsEnabled,  \* Blockly.Events.isEnabled()
    wsUndo,         \* the workspace's undo stack of events
    wsRedo,         \* the workspace's redo stack of events
    wsBlocks,       \* ids of the other blocks alive in the workspace
    hasSourceBlock, \* this.sourceBlock_ is set
    isInFlyout,     \* this.sourceBlock_.isInFlyout
    assetType,      \* getAssetType()
    editor,         \* the open editor view, if any
    disposed,       \* the field was disposed of
    handler,        \* the handler that ran last
    calls,          \* the calls the last handler made, in order
    fired,          \* the events the last handler gave to Blockly.Events.fire
    invocations,    \* the runs of assetChangeListener during the last handler
    given,          \* the editor result the last handler was given, if any
    returned        \* the text the last handler returned, if any

vars == <<asset, isGreyBlock, pendingEdit, undoRedoState, valueText, blockData,
          preview, store, revision, nextID, listeners, projUndo, projRedo,
          eventsEnabled, wsUndo, wsRedo, wsBlocks, hasSourceBlock, isInFlyout,
          assetType, editor, disposed, handler, calls, fired, invocations,
          given, returned>>

----------------------------------------------------------------------------
(* Bounds *)

MaxAssets == 2
MaxRevision == 4
MaxUndo == 1

----------------------------------------------------------------------------
(* Values *)

IdName == <<"a1", "a2", "a3", "a4", "a5">>
AssetIds == {IdName[i] : i \in 1..MaxAssets}

ThisBlock == "b1"
OtherBlock == "b2"

NullData == "<null>"

Data == {"d0", "d1"}
Names == {"n1"}
ProjectTiles == {"t1"}
AssetTypes == {"image", "tilemap"}

\* `undefined` where an asset is expected
Undefined ==
    [id |-> "", type |-> "", displayName |-> "", blockIDs |-> <<>>,
     data |-> "", tiles |-> {}, projectReferences |-> {}]

NewAsset(id, type, name, blocks, data) ==
    [id |-> id, type |-> type, displayName |-> name, blockIDs |-> blocks,
     data |-> data, tiles |-> {}, projectReferences |-> {}]

Range(q) == {q[i] : i \in 1..Len(q)}

RECURSIVE Filter(_, _)
Filter(q, x) ==
    IF q = <<>> THEN <<>>
    ELSE IF Head(q) = x THEN Filter(Tail(q), x)
    ELSE <<Head(q)>> \o Filter(Tail(q), x)

CountCalls(q, name) == Cardinality({i \in 1..Len(q) : q[i][1] = name})

Truthy(str) == str # "" /\ str # NullData

Call(name, arg) == <<name, arg>>

Log(s, name, arg) == [s EXCEPT !.calls = Append(@, Call(name, arg))]

\* pxt.Util.htmlUnescape on a text given as a sequence of tokens
Unescape1(tok) ==
    CASE tok = "&lt;" -> "<"
      [] tok = "&gt;" -> ">"
      [] tok = "&amp;" -> "&"
      [] tok = "&amp;lt;" -> "&lt;"
      [] OTHER -> tok

htmlUnescape(text) == [i \in 1..Len(text) |-> Unescape1(text[i])]

----------------------------------------------------------------------------
(* Texts.  A text is a sequence of tokens. *)

LitText(d) == <<"lit", d>>
RefText(n) == <<"ref", n>>
EmptyLiteral == <<"lit">>

InvalidTexts == {<<"&amp;lt;">>}

\* The texts a field is given from outside
Texts == {LitText("d0")} \cup {RefText(n) : n \in Names} \cup InvalidTexts

----------------------------------------------------------------------------
(* The state as one record, which the methods below map to a new record. *)

Cur ==
    [asset |-> asset, isGreyBlock |-> isGreyBlock, pendingEdit |-> pendingEdit,
     undoRedoState |-> undoRedoState, valueText |-> valueText,
     blockData |-> blockData, preview |-> preview, store |-> store,
     revision |-> revision, nextID |-> nextID, listeners |-> listeners,
     projUndo |-> projUndo, projRedo |-> projRedo,
     eventsEnabled |-> eventsEnabled, wsUndo |-> wsUndo, wsRedo |-> wsRedo,
     editor |-> editor, calls |-> <<>>, fired |-> <<>>, invocations |-> <<>>,
     given |-> Undefined, returned |-> <<>>, overflow |-> FALSE]

\* The handler `name` takes the state to s.  A handler that would pass a bound
\* of the model is not taken, and a disposed field takes no further part.
Becomes(name, after) ==
    \E s \in {after} :
    /\ ~disposed
    /\ ~s.overflow
    /\ asset' = s.asset
    /\ isGreyBlock' = s.isGreyBlock
    /\ pendingEdit' = s.pendingEdit
    /\ undoRedoState' = s.undoRedoState
    /\ valueText' = s.valueText
    /\ blockData' = s.blockData
    /\ preview' = s.preview
    /\ store' = s.store
    /\ revision' = s.revision
    /\ nextID' = s.nextID
    /\ listeners' = s.listeners
    /\ projUndo' = s.projUndo
    /\ projRedo' = s.projRedo
    /\ eventsEnabled' = s.eventsEnabled
    /\ wsUndo' = s.wsUndo
    /\ wsRedo' = s.wsRedo
    /\ editor' = s.editor
    /\ handler' = name
    /\ calls' = s.calls
    /\ fired' = s.fired
    /\ invocations' = s.invocations
    /\ given' = s.given
    /\ returned' = s.returned
    /\ disposed' = (name = "onDispose")
    /\ UNCHANGED <<wsBlocks, hasSourceBlock, isInFlyout, assetType>>

----------------------------------------------------------------------------
(* FieldBase and the field's own small methods *)

getBlockData(s) == s.blockData

setBlockData(s, value) == [s EXCEPT !.blockData = value]

isTemporaryAsset(s) == s.asset # Undefined /\ s.asset.displayName = ""

\* The subclass's text for the field's asset: a reference to a named asset,
\* a literal of the data otherwise.
getValueText(s) ==
    IF s.asset = Undefined THEN EmptyLiteral
    ELSE IF s.asset.displayName # "" THEN RefText(s.asset.displayName)
    ELSE LitText(s.asset.data)

\* getValue as it would be if a grey block returned its stored text as it is.
getValueRaw(s) ==
    IF s.isGreyBlock THEN s.valueText
    ELSE getValueText(s)

getValue(s) ==
    IF s.isGreyBlock THEN htmlUnescape(s.valueText)
    ELSE getValueText(s)

\* The preview is the drawing of the grey text or of the asset's data.
redrawPreview(s) ==
    LET drawn == IF s.isGreyBlock THEN "grey"
                 ELSE IF s.asset = Undefined THEN "empty"
                 ELSE s.asset.data
    IN  Log([s EXCEPT !.preview = drawn], "redrawPreview", drawn)

----------------------------------------------------------------------------
(* The tilemap project *)

LookupIn(st, id) == IF id \in DOMAIN st THEN st[id] ELSE Undefined

lookupAsset(s, id) == LookupIn(s.store, id)

onChange(s) ==
    IF s.nextID > MaxRevision THEN [s EXCEPT !.overflow = TRUE]
    ELSE [s EXCEPT !.revision = s.nextID, !.nextID = s.nextID + 1]

\* The listener as it would be without the lookup of the stored id.
assetChangeListenerStale(s) ==
    IF s.pendingEdit THEN Log(s, "assetChangeListener", "pendingEdit")
    ELSE redrawPreview(Log(s, "assetChangeListener", ""))

\* The listener as it would be without the pendingEdit guard.
assetChangeListenerUnguarded(s) ==
    LET s0 == Log(s, "assetChangeListener", "")
        id == getBlockData(s0)
        s1 == IF Truthy(id)
              THEN [s0 EXCEPT !.asset = lookupAsset(s0, id)]
              ELSE s0
    IN  redrawPreview(s1)

assetChangeListener(s) ==
    IF s.pendingEdit THEN Log(s, "assetChangeListener", "pendingEdit")
    ELSE
        LET s0 == Log(s, "assetChangeListener", "")
            id == getBlockData(s0)
            s1 == IF Truthy(id)
                  THEN [s0 EXCEPT !.asset = lookupAsset(s0, id)]
                  ELSE s0
        IN  redrawPreview(s1)

\* One call of the listener by the project, with a record of what it saw
\* and what it left.
invokeListener(s) ==
    LET seen(r) == [pendingEdit |-> s.pendingEdit,
                    id |-> s.blockData,
                    before |-> s.asset,
                    found |-> LookupIn(s.store, s.blockData),
                    after |-> r.asset,
                    redraws |-> CountCalls(r.calls, "redrawPreview")
                                - CountCalls(s.calls, "redrawPreview")]
        record(r) == [r EXCEPT !.invocations = Append(@, seen(r))]
    IN  record(assetChangeListener(s))

\* The project calls every listener registered on the asset that changed.
RECURSIVE notifyListener(_, _, _)
notifyListener(s, id, k) ==
    IF k > Len(s.listeners) THEN s
    ELSE IF s.listeners[k].id = id
         THEN notifyListener(invokeListener(s), id, k + 1)
         ELSE notifyListener(s, id, k + 1)

updateAsset(s, a) ==
    LET s0 == Log(onChange(s), "updateAsset", a.id)
    IN  IF lookupAsset(s0, a.id) = a THEN s0
        ELSE notifyListener([s0 EXCEPT !.store[a.id] = a], a.id, 1)

FreeIds(s) == {id \in AssetIds : s.store[id] = Undefined}

FreshId(s) == CHOOSE id \in FreeIds(s) : \A o \in FreeIds(s) : 
                  \E i, j \in 1..MaxAssets : IdName[i] = id /\ IdName[j] = o /\ i <= j

\* A copy of the asset under a new id; [st, ret] is the state and the copy.
duplicateAsset(s, a) ==
    IF FreeIds(s) = {} THEN [st |-> [s EXCEPT !.overflow = TRUE], ret |-> a]
    ELSE
        LET copy == [a EXCEPT !.id = FreshId(s)]
            s0 == Log(onChange(s), "duplicateAsset", a.id)
        IN  [st |-> [s0 EXCEPT !.store[copy.id] = copy], ret |-> copy]

removeAsset(s, a) ==
    LET s0 == Log(onChange(s), "removeAsset", a.id)
    IN  IF a.id \in DOMAIN s0.store
        THEN [s0 EXCEPT !.store[a.id] = Undefined]
        ELSE s0

Registration(a) == [type |-> a.type, id |-> a.id]

\* The listener is registered in the collection of the asset's type.
addChangeListener(s, a) ==
    Log([s EXCEPT !.listeners = Append(@, Registration(a))],
        "addChangeListener", a.id)

RECURSIVE WithoutType(_, _)
WithoutType(q, type) ==
    IF q = <<>> THEN <<>>
    ELSE IF Head(q).type = type THEN WithoutType(Tail(q), type)
    ELSE <<Head(q)>> \o WithoutType(Tail(q), type)

\* Every registration of this field's callback in the collection of `type`
\* is dropped.
removeChangeListener(s, type) ==
    Log([s EXCEPT !.listeners = WithoutType(@, type)], "removeChangeListener", type)

\* The newest MaxUndo of a stack
Newest(q) == IF Len(q) > MaxUndo THEN Tail(q) ELSE q

\* A snapshot of the assets goes on the undo stack, of which the model keeps
\* the newest MaxUndo, and the redo stack is emptied.
pushUndo(s) ==
    LET s0 == Log(s, "pushUndo", "")
    IN  [s0 EXCEPT
           !.projUndo = Newest(Append(@, [store |-> s0.store,
                                          revision |-> s0.revision])),
           !.projRedo = <<>>]

\* The listeners of every asset that differs from `old` are called, in id order.
RECURSIVE notifyChanged(_, _, _)
notifyChanged(s, old, i) ==
    IF i > MaxAssets THEN s
    ELSE IF s.store[IdName[i]] # old[IdName[i]]
         THEN notifyChanged(notifyListener(s, IdName[i], 1), old, i + 1)
         ELSE notifyChanged(s, old, i + 1)

undo(s) ==
    LET s0 == Log(s, "undo", "")
    IN  IF s0.projUndo = <<>> THEN s0
        ELSE
            LET snap == s0.projUndo[Len(s0.projUndo)]
                s1 == [s0 EXCEPT
                         !.projUndo = SubSeq(@, 1, Len(@) - 1),
                         !.projRedo = Append(@, [store |-> s0.store,
                                                 revision |-> s0.revision]),
                         !.store = snap.store,
                         !.revision = snap.revision]
            IN  notifyChanged(s1, s0.store, 1)

redo(s) ==
    LET s0 == Log(s, "redo", "")
    IN  IF s0.projRedo = <<>> THEN s0
        ELSE
            LET snap == s0.projRedo[Len(s0.projRedo)]
                s1 == [s0 EXCEPT
                         !.projRedo = SubSeq(@, 1, Len(@) - 1),
                         !.projUndo = Append(@, [store |-> s0.store,
                                                 revision |-> s0.revision]),
                         !.store = snap.store,
                         !.revision = snap.revision]
            IN  notifyChanged(s1, s0.store, 1)

assetEquals(a, b) == a = b

----------------------------------------------------------------------------
(* Blockly *)

getBlockById(id) == id = ThisBlock \/ id \in wsBlocks

BlocklyTilemapChange(element, oldValue, newValue, oldRevision, newRevision) ==
    [kind |-> "BlocklyTilemapChange", element |-> element,
     oldValue |-> oldValue, newValue |-> newValue,
     oldRevision |-> oldRevision, newRevision |-> newRevision,
     recordUndo |-> TRUE]

\* Blockly.Events.BlockChange.isNull
BlockChangeIsNull(ev) == ev.oldValue = ev.newValue

\* isNull as it would be if it looked at the values only.
isNullOfValues(ev) == BlockChangeIsNull(ev)

isNull(ev) == ev.oldRevision = ev.newRevision /\ BlockChangeIsNull(ev)

\* Blockly.Events.fire and the workspace's change listener: an event that is
\* not null and records undo goes on the undo stack, which keeps the newest
\* MaxUndo events, and empties the redo stack.
fire(s, ev) ==
    LET s0 == [Log(s, "fire", ev.element) EXCEPT !.fired = Append(@, ev)]
    IN  IF s0.eventsEnabled /\ ~isNull(ev) /\ ev.recordUndo
        THEN [s0 EXCEPT !.wsUndo = Newest(Append(@, ev)), !.wsRedo = <<>>]
        ELSE s0

----------------------------------------------------------------------------
(* FieldAssetEditor *)

\* updateAssetListener as it would be without the removeChangeListener call.
updateAssetListenerAddsOnly(s) ==
    IF s.asset # Undefined THEN addChangeListener(s, s.asset) ELSE s

updateAssetListener(s) ==
    LET s0 == removeChangeListener(s, assetType)
    IN  IF s0.asset # Undefined THEN addChangeListener(s0, s0.asset) ELSE s0

\* updateAssetMeta as it would be if the duplicate kept the original's
\* blockIDs (without `this.asset.meta.blockIDs = []`).
updateAssetMetaKeepsIDs(s) ==
    IF s.asset = Undefined THEN s
    ELSE
        LET s1 ==
                IF hasSourceBlock
                THEN
                    LET s2 ==
                            IF ThisBlock \notin Range(s.asset.blockIDs)
                            THEN
                                LET blockIDs == s.asset.blockIDs
                                    s3 ==
                                        IF /\ Len(blockIDs) > 0
                                           /\ isTemporaryAsset(s)
                                           /\ \E id \in Range(blockIDs) : getBlockById(id)
                                        THEN
                                            LET d == duplicateAsset(s, s.asset)
                                            IN  [d.st EXCEPT !.asset = d.ret]
                                        ELSE s
                                IN  [s3 EXCEPT !.asset.blockIDs = Append(@, ThisBlock)]
                            ELSE s
                    IN  setBlockData(s2, s2.asset.id)
                ELSE s
        IN  updateAsset(s1, s1.asset)

\* updateAssetMeta as it would be if the block's id were pushed without the
\* indexOf check.
updateAssetMetaAddsAgain(s) ==
    IF s.asset = Undefined THEN s
    ELSE
        LET s1 ==
                IF hasSourceBlock
                THEN
                    LET blockIDs == s.asset.blockIDs
                        s3 ==
                            IF /\ ThisBlock \notin Range(blockIDs)
                               /\ Len(blockIDs) > 0
                               /\ isTemporaryAsset(s)
                               /\ \E id \in Range(blockIDs) : getBlockById(id)
                            THEN
                                LET d == duplicateAsset(s, s.asset)
                                IN  [d.st EXCEPT
                                       !.asset = [d.ret EXCEPT !.blockIDs = <<>>]]
                            ELSE s
                        s2 == [s3 EXCEPT !.asset.blockIDs = Append(@, ThisBlock)]
                    IN  setBlockData(s2, s2.asset.id)
                ELSE s
        IN  updateAsset(s1, s1.asset)

updateAssetMeta(s) ==
    IF s.asset = Undefined THEN s
    ELSE
        LET s1 ==
                IF hasSourceBlock
                THEN
                    LET s2 ==
                            IF ThisBlock \notin Range(s.asset.blockIDs)
                            THEN
                                LET blockIDs == s.asset.blockIDs
                                    s3 ==
                                        IF /\ Len(blockIDs) > 0
                                           /\ isTemporaryAsset(s)
                                           /\ \E id \in Range(blockIDs) : getBlockById(id)
                                        THEN
                                            LET d == duplicateAsset(s, s.asset)
                                            IN  [d.st EXCEPT
                                                   !.asset = [d.ret EXCEPT !.blockIDs = <<>>]]
                                        ELSE s
                                IN  [s3 EXCEPT !.asset.blockIDs = Append(@, ThisBlock)]
                            ELSE s
                    IN  setBlockData(s2, s2.asset.id)
                ELSE s
        IN  updateAsset(s1, s1.asset)

\* The subclass's asset for a text: the project's asset of that name, a new
\* temporary asset for a literal, and a grey block for anything else.
createNewAsset(before, text) ==
    LET s == Log(before, "createNewAsset", getBlockData(before))
        named == {id \in AssetIds :
                    /\ s.store[id] # Undefined
                    /\ Len(text) = 2 /\ text[1] = "ref"
                    /\ s.store[id].displayName = text[2]}
    IN  IF named # {}
        THEN [st |-> s, ret |-> s.store[CHOOSE id \in named : TRUE]]
        ELSE IF Len(text) = 2 /\ text[1] = "lit" /\ text[2] \in Data
        THEN IF FreeIds(s) = {}
             THEN [st |-> [s EXCEPT !.overflow = TRUE], ret |-> Undefined]
             ELSE [st |-> s,
                   ret |-> NewAsset(FreshId(s), assetType, "", <<>>, text[2])]
        ELSE [st |-> [s EXCEPT !.isGreyBlock = TRUE, !.valueText = text],
              ret |-> Undefined]

\* parseValueText as it would be without `this.setBlockData(null)`.
parseValueTextKeepsId(s, text) ==
    LET newText == htmlUnescape(text)
    IN  IF hasSourceBlock /\ ~isInFlyout
        THEN
            LET id == getBlockData(s)
                existing == lookupAsset(s, id)
                s1 ==
                    IF existing # Undefined
                    THEN [s EXCEPT !.asset = existing]
                    ELSE
                        LET s2 == s
                            s3 ==
                                IF s2.asset # Undefined
                                THEN
                                    LET s4 == [s2 EXCEPT !.asset.blockIDs =
                                                  Filter(@, ThisBlock)]
                                    IN  updateAsset(s4, s4.asset)
                                ELSE s2
                            c == createNewAsset(s3, newText)
                        IN  [c.st EXCEPT !.asset = c.ret]
            IN  updateAssetListener(updateAssetMeta(s1))
        ELSE s

parseValueText(s, text) ==
    LET newText == htmlUnescape(text)
    IN  IF hasSourceBlock /\ ~isInFlyout
        THEN
            LET id == getBlockData(s)
                existing == lookupAsset(s, id)
                s1 ==
                    IF existing # Undefined
                    THEN [s EXCEPT !.asset = existing]
                    ELSE
                        LET s2 == setBlockData(s, NullData)
                            s3 ==
                                IF s2.asset # Undefined
                                THEN
                                    LET s4 == [s2 EXCEPT !.asset.blockIDs =
                                                  Filter(@, ThisBlock)]
                                    IN  updateAsset(s4, s4.asset)
                                ELSE s2
                            c == createNewAsset(s3, newText)
                        IN  [c.st EXCEPT !.asset = c.ret]
            IN  updateAssetListener(updateAssetMeta(s1))
        ELSE s

\* [st, ret]: the state after, and the text returned
onValueChanged(s, newValue) ==
    LET return(s1) == [st |-> s1, ret |-> getValueText(s1)]
    IN  return(redrawPreview(parseValueText(s, newValue)))

\* FieldBase.doValueUpdate_: the field's value text is what onValueChanged returns
doValueUpdate(s, newValue) ==
    LET update(r) == [r.st EXCEPT !.valueText = r.ret, !.returned = r.ret]
    IN  update(onValueChanged(Log(s, "onValueChanged", newValue), newValue))

\* disposeOfTemporaryAsset as it would be without the isTemporaryAsset check.
disposeOfTemporaryAssetOfAny(s) ==
    [setBlockData(removeAsset(s, s.asset), "") EXCEPT !.asset = Undefined]

disposeOfTemporaryAsset(s) ==
    IF isTemporaryAsset(s)
    THEN [setBlockData(removeAsset(s, s.asset), "") EXCEPT !.asset = Undefined]
    ELSE s

onDispose(s) == removeChangeListener(disposeOfTemporaryAsset(s), assetType)

onEditorClose(s, newValue) == s

NoEditor == [open |-> FALSE, asset |-> Undefined, restored |-> ""]

\* project.isAssetUsed(tile, null, [skip]): some other asset holds the tile
isAssetUsed(s, tile, skip) ==
    \E id \in AssetIds : id # skip /\ tile \in s.store[id].tiles

\* What showEditor_ does for a field that is not grey.
openEditor(s) ==
    IF s.asset = Undefined THEN Log(s, "TypeError", "asset.type")
    ELSE
        LET s1 ==
                IF s.asset.type = "tilemap"
                THEN [s EXCEPT
                        !.asset.tiles = @ \cup ProjectTiles,
                        !.asset.projectReferences =
                            {tile \in ProjectTiles : isAssetUsed(s, tile, s.asset.id)}]
                ELSE s
            s2 == [Log(s1, "getFieldEditorView", s1.asset.id) EXCEPT
                     !.editor = [open |-> TRUE, asset |-> s1.asset, restored |-> ""]]
            s3 == IF s2.undoRedoState # ""
                  THEN [Log(s2, "restorePersistentData", s2.undoRedoState) EXCEPT
                          !.editor.restored = s2.undoRedoState]
                  ELSE s2
        IN  Log(pushUndo(s3), "show", "")

\* showEditor_ as it would be without the isGreyBlock guard.
showEditorOfGrey(s) == openEditor(s)

showEditor(s) ==
    IF s.isGreyBlock THEN s ELSE openEditor(s)

\* The hide handler as it would be if the old value were read after the
\* asset is replaced.
onHideReadsOldLate(s, result, persistent) ==
    LET s0 == [Log(s, "getResult", result.id) EXCEPT
                 !.editor = NoEditor, !.given = result]
    IN  IF result # Undefined
        THEN
            LET old == getValue(s0)
            IN  IF assetEquals(s0.asset, result) THEN s0
                ELSE
                    LET s1 == [s0 EXCEPT !.pendingEdit = TRUE, !.asset = result]
                        lastRevision == s1.revision
                        s2 == onEditorClose(s1, s1.asset)
                        s3 == updateAssetListener(s2)
                        s4 == updateAssetMeta(s3)
                        s5 == redrawPreview(s4)
                        s6 == [s5 EXCEPT !.undoRedoState = persistent]
                        fireChange(s7) ==
                            IF hasSourceBlock /\ s7.eventsEnabled
                            THEN fire(s7, BlocklyTilemapChange(
                                     "field", getValue(s1), getValue(s7),
                                     lastRevision, s7.revision))
                            ELSE s7
                        done(s8) == [s8 EXCEPT !.pendingEdit = FALSE]
                    IN  done(fireChange(s6))
        ELSE s0

\* The hide handler as it would be without the return on an equal result.
onHideOfEqual(s, result, persistent) ==
    LET s0 == [Log(s, "getResult", result.id) EXCEPT
                 !.editor = NoEditor, !.given = result]
    IN  IF result # Undefined
        THEN
            LET old == getValue(s0)
            IN
                    LET s1 == [s0 EXCEPT !.pendingEdit = TRUE, !.asset = result]
                        lastRevision == s1.revision
                        s2 == onEditorClose(s1, s1.asset)
                        s3 == updateAssetListener(s2)
                        s4 == updateAssetMeta(s3)
                        s5 == redrawPreview(s4)
                        s6 == [s5 EXCEPT !.undoRedoState = persistent]
                        fireChange(s7) ==
                            IF hasSourceBlock /\ s7.eventsEnabled
                            THEN fire(s7, BlocklyTilemapChange(
                                     "field", old, getValue(s7),
                                     lastRevision, s7.revision))
                            ELSE s7
                        done(s8) == [s8 EXCEPT !.pendingEdit = FALSE]
                    IN  done(fireChange(s6))
        ELSE s0

\* The handler given to fv.onHide, run with the editor's result and its
\* persistent data; the view is gone afterwards.
onHide(s, result, persistent) ==
    LET s0 == [Log(s, "getResult", result.id) EXCEPT
                 !.editor = NoEditor, !.given = result]
    IN  IF result # Undefined
        THEN
            LET old == getValue(s0)
            IN  IF assetEquals(s0.asset, result) THEN s0
                ELSE
                    LET s1 == [s0 EXCEPT !.pendingEdit = TRUE, !.asset = result]
                        lastRevision == s1.revision
                        s2 == onEditorClose(s1, s1.asset)
                        s3 == updateAssetListener(s2)
                        s4 == updateAssetMeta(s3)
                        s5 == redrawPreview(s4)
                        s6 == [s5 EXCEPT !.undoRedoState = persistent]
                        fireChange(s7) ==
                            IF hasSourceBlock /\ s7.eventsEnabled
                            THEN fire(s7, BlocklyTilemapChange(
                                     "field", old, getValue(s7),
                                     lastRevision, s7.revision))
                            ELSE s7
                        done(s8) == [s8 EXCEPT !.pendingEdit = FALSE]
                    IN  done(fireChange(s6))
        ELSE s0

----------------------------------------------------------------------------
(* BlocklyTilemapChange *)

\* Blockly.Events.BlockChange.run for a field: the field is set to the new
\* value going forward and to the old value going back.
BlockChangeRun(s, ev, forward) ==
    doValueUpdate(Log(s, "BlockChange.run", IF forward THEN "forward" ELSE "backward"),
                  IF forward THEN ev.newValue ELSE ev.oldValue)

\* run as it would be with the base run before the project's undo or redo.
runBaseFirst(s, ev, forward) ==
    LET recompile(s1) == [BlocklyTilemapChange("tilemap-revision", <<"null">>,
                                               <<ToString(s1.revision)>>, 0, 0)
                          EXCEPT !.recordUndo = FALSE]
        fireRecompile(s1) == fire(s1, recompile(s1))
    IN  fireRecompile(IF forward
                      THEN redo(BlockChangeRun(s, ev, forward))
                      ELSE undo(BlockChangeRun(s, ev, forward)))

\* run as it would be without `ev.recordUndo = false`.
runRecorded(s, ev, forward) ==
    LET recompile(s1) == BlocklyTilemapChange("tilemap-revision", <<"null">>,
                                              <<ToString(s1.revision)>>, 0, 0)
        fireRecompile(s1) == fire(s1, recompile(s1))
    IN  fireRecompile(IF forward
                      THEN BlockChangeRun(redo(s), ev, forward)
                      ELSE BlockChangeRun(undo(s), ev, forward))

run(s, ev, forward) ==
    LET recompile(s1) == [BlocklyTilemapChange("tilemap-revision", <<"null">>,
                                               <<ToString(s1.revision)>>, 0, 0)
                          EXCEPT !.recordUndo = FALSE]
        fireRecompile(s1) == fire(s1, recompile(s1))
    IN  fireRecompile(IF forward
                      THEN BlockChangeRun(redo(s), ev, forward)
                      ELSE BlockChangeRun(undo(s), ev, forward))

----------------------------------------------------------------------------
(* The state after construction *)

EmptyStore == [id \in AssetIds |-> Undefined]

\* The project and the block's stored id when the field is constructed: a new
\* block in an empty project, a new block beside a named asset, a copy of a
\* block that uses a temporary asset, a block that refers to a named asset.
InitProjects(type) ==
    << [store |-> EmptyStore, blockData |-> ""],
      [store |-> [EmptyStore EXCEPT ![IdName[1]] =
                    NewAsset(IdName[1], type, "n1", <<>>, "d0")],
       blockData |-> ""],
       [store |-> [EmptyStore EXCEPT ![IdName[1]] =
                    NewAsset(IdName[1], type, "", <<OtherBlock>>, "d0")],
       blockData |-> IdName[1]],
      [store |-> [EmptyStore EXCEPT ![IdName[1]] =
                    NewAsset(IdName[1], type, "n1", <<>>, "d0")],
       blockData |-> IdName[1]] >>

\* How the field is set up: the usual field of a block in the workspace, for
\* every project, and the special set-ups one at a time.
Usual(p, type) ==
    [project |-> p, type |-> type, text |-> LitText("d0"), enabled |-> TRUE,
     sourceBlock |-> TRUE, flyout |-> FALSE, blocks |-> {OtherBlock}]

InitCases ==
    {Usual(2, "tilemap"), Usual(3, "tilemap"), Usual(4, "image")}
    \cup {[Usual(3, "image") EXCEPT !.enabled = FALSE],
          [Usual(1, "tilemap") EXCEPT !.text = <<"&amp;lt;">>],
          [Usual(3, "image") EXCEPT !.blocks = {}],
          [Usual(2, "image") EXCEPT !.sourceBlock = FALSE],
          [Usual(4, "image") EXCEPT !.flyout = TRUE]}

Init ==
    /\ asset = Undefined
    /\ pendingEdit = FALSE
    /\ undoRedoState = ""
    /\ \E c \in InitCases :
          /\ assetType = c.type
          /\ store = InitProjects(c.type)[c.project].store
          /\ blockData = InitProjects(c.type)[c.project].blockData
          /\ valueText = c.text
          /\ eventsEnabled = c.enabled
          /\ hasSourceBlock = c.sourceBlock
          /\ isInFlyout = c.flyout
          /\ wsBlocks = c.blocks
    /\ isGreyBlock = (valueText \in InvalidTexts)
    /\ disposed = FALSE
    /\ preview = "none"
    /\ revision = 0
    /\ nextID = 1
    /\ listeners = <<>>
    /\ projUndo = <<>>
    /\ projRedo = <<>>
    /\ wsUndo = <<>>
    /\ wsRedo = <<>>
    /\ editor = NoEditor
    /\ handler = "constructor"
    /\ calls = <<>>
    /\ fired = <<>>
    /\ invocations = <<>>
    /\ given = Undefined
    /\ returned = <<>>

----------------------------------------------------------------------------
(* The handlers *)

\* The field is given a value (FieldBase.doValueUpdate_ -> onValueChanged).
SetValue(text) == Becomes("onValueChanged", doValueUpdate(Cur, text))

ShowEditor ==
    /\ ~editor.open
    /\ Becomes("showEditor_", showEditor(Cur))

\* What the editor opened on asset a can hand back
Results(a) ==
    {[a EXCEPT !.data = d] : d \in Data} \cup {[a EXCEPT !.displayName = n] : n \in Names}

EditorHide(result, persistent) ==
    /\ editor.open
    /\ Becomes("onHide", onHide(Cur, result, persistent))

Dispose == Becomes("onDispose", onDispose(Cur))

\* Blockly.Workspace.undo(redo): the newest event of the input stack moves to
\* the output stack and is run.
WorkspaceUndo(redoing) ==
    LET input == IF redoing THEN wsRedo ELSE wsUndo
        output == IF redoing THEN wsUndo ELSE wsRedo
        ev == input[Len(input)]
        moved == Append(output, ev)
        s == IF redoing
             THEN [Cur EXCEPT !.wsRedo = SubSeq(input, 1, Len(input) - 1),
                              !.wsUndo = moved]
             ELSE [Cur EXCEPT !.wsUndo = SubSeq(input, 1, Len(input) - 1),
                              !.wsRedo = moved]
    IN  /\ input # <<>>
        /\ Becomes(IF redoing THEN "run:forward" ELSE "run:backward",
                   run(s, ev, redoing))

\* What another user of the project can make of asset a: new data, a name,
\* its own block id added or removed.
Variants(a) ==
    {[a EXCEPT !.data = d] : d \in Data}
    \cup {[a EXCEPT !.displayName = n] : n \in Names}
    \cup {[a EXCEPT !.blockIDs = IF OtherBlock \in Range(@)
                                 THEN Filter(@, OtherBlock)
                                 ELSE Append(@, OtherBlock)]}

\* Another user of the project changes the asset this field shows.
ExternalUpdate(id, a) ==
    /\ id \in {l.id : l \in Range(listeners)} \cup {blockData}
    /\ store[id] # Undefined
    /\ a # store[id]
    /\ Becomes("externalUpdate", updateAsset(Cur, a))

\* Another user of the project deletes the asset this field shows.
ExternalRemove(id) ==
    /\ id \in {l.id : l \in Range(listeners)} \cup {blockData}
    /\ store[id] # Undefined
    /\ Becomes("externalRemove", removeAsset(Cur, store[id]))

Next ==
    \/ \E text \in Texts : SetValue(text)
    \/ ShowEditor
    \/ \E result \in Results(editor.asset) \cup {Undefined} :
          EditorHide(result, "p1")
    \/ Dispose
    \/ \E redoing \in BOOLEAN : WorkspaceUndo(redoing)
    \/ \E id \in AssetIds : \E a \in Variants(store[id]) : ExternalUpdate(id, a)
    \/ \E id \in AssetIds : ExternalRemove(id)

Spec == Init /\ [][Next]_vars

----------------------------------------------------------------------------
(* getValue on its own: the field in any of the states getValue reads, and
   the one operation of reading the value. *)

ValueTexts ==
    {LitText(d) : d \in Data} \cup {RefText(n) : n \in Names}
    \cup {<<"&amp;lt;">>, <<"&lt;">>, <<"x", "&gt;">>, <<"&amp;", "x">>}

ValueAssets ==
    {Undefined}
    \cup {NewAsset(IdName[1], type, name, <<ThisBlock>>, d) :
            type \in AssetTypes, name \in Names \cup {""}, d \in Data}

InitValue ==
    /\ asset \in ValueAssets
    /\ isGreyBlock \in BOOLEAN
    /\ valueText \in ValueTexts
    /\ pendingEdit = FALSE
    /\ undoRedoState = ""
    /\ blockData = asset.id
    /\ preview = "none"
    /\ assetType = IF asset = Undefined THEN "image" ELSE asset.type
    /\ store = IF asset = Undefined THEN EmptyStore
               ELSE [EmptyStore EXCEPT ![asset.id] = asset]
    /\ revision = 0
    /\ nextID = 1
    /\ listeners = <<>>
    /\ projUndo = <<>>
    /\ projRedo = <<>>
    /\ eventsEnabled = TRUE
    /\ wsUndo = <<>>
    /\ wsRedo = <<>>
    /\ wsBlocks = {}
    /\ hasSourceBlock = TRUE
    /\ isInFlyout = FALSE
    /\ editor = NoEditor
    /\ disposed = FALSE
    /\ handler = "constructor"
    /\ calls = <<>>
    /\ fired = <<>>
    /\ invocations = <<>>
    /\ given = Undefined
    /\ returned = <<>>

\* The field's value is read (when the block is saved or compiled).
GetValue == Becomes("getValue", [Cur EXCEPT !.returned = getValue(Cur)])

NextValue == GetValue

SpecValue == InitValue /\ [][NextValue]_vars

----------------------------------------------------------------------------
(* isNull on its own: change events of every combination of equal and
   different values and revisions, given to Blockly.Events.fire, which drops
   the events that say they are null. *)

ChangeValues == {LitText(d) : d \in Data}

ChangeRevisions == 0..2

ChangeEvents ==
    {BlocklyTilemapChange("field", oldValue, newValue, oldRevision, newRevision) :
        oldValue \in ChangeValues, newValue \in ChangeValues,
        oldRevision \in ChangeRevisions, newRevision \in ChangeRevisions}

\* A field of a block in the workspace that shows a named asset of the project
InitNull ==
    /\ asset = NewAsset(IdName[1], "image", "n1", <<ThisBlock>>, "d0")
    /\ isGreyBlock = FALSE
    /\ valueText = RefText("n1")
    /\ pendingEdit = FALSE
    /\ undoRedoState = ""
    /\ blockData = asset.id
    /\ preview = "none"
    /\ assetType = "image"
    /\ store = [EmptyStore EXCEPT ![asset.id] = asset]
    /\ revision = 0
    /\ nextID = 1
    /\ listeners = <<Registration(asset)>>
    /\ projUndo = <<>>
    /\ projRedo = <<>>
    /\ eventsEnabled = TRUE
    /\ wsUndo = <<>>
    /\ wsRedo = <<>>
    /\ wsBlocks = {}
    /\ hasSourceBlock = TRUE
    /\ isInFlyout = FALSE
    /\ editor = NoEditor
    /\ disposed = FALSE
    /\ handler = "constructor"
    /\ calls = <<>>
    /\ fired = <<>>
    /\ invocations = <<>>
    /\ given = Undefined
    /\ returned = <<>>

\* A change event is fired.
FireChange(ev) == Becomes("fire", fire(Cur, ev))

NextNull == \E ev \in ChangeEvents : FireChange(ev)

SpecNull == InitNull /\ [][NextNull]_vars

----------------------------------------------------------------------------
(* The claims *)

\* The position of the first call of `name` in the last handler's calls, 0
\* when there is none.
FirstCallIn(q, name) ==
    IF CountCalls(q, name) = 0 THEN 0
    ELSE CHOOSE i \in 1..Len(q) :
            /\ q[i][1] = name
            /\ \A j \in 1..(i - 1) : q[j][1] # name

FirstCall(name) == FirstCallIn(calls, name)

\* C1: whenever assetChangeListener runs while no edit is pending, the
\* field's asset afterwards is what the project's lookupAsset returns for the
\* block's stored id if that id is non-empty, and is unchanged if it is empty.
C1_ListenerReloads ==
    \A i \in 1..Len(invocations) :
        LET v == invocations[i]
        IN  ~v.pendingEdit =>
               IF Truthy(v.id) THEN v.after = v.found ELSE v.after = v.before

\* A listener run that replaced the field's asset by the project's.
C1_Witness ==
    \E i \in 1..Len(invocations) :
        LET v == invocations[i]
        IN  ~v.pendingEdit /\ Truthy(v.id) /\ v.after = v.found /\ v.after # v.before

\* C2: run(forward) makes exactly one project redo and no undo when forward,
\* exactly one project undo and no redo when not, and makes it before the
\* base run restores the field's value.
C2_RunOrder ==
    /\ handler = "run:forward" =>
          /\ CountCalls(calls, "redo") = 1
          /\ CountCalls(calls, "undo") = 0
          /\ CountCalls(calls, "BlockChange.run") = 1
          /\ FirstCall("redo") < FirstCall("BlockChange.run")
          /\ calls[FirstCall("BlockChange.run")][2] = "forward"
    /\ handler = "run:backward" =>
          /\ CountCalls(calls, "undo") = 1
          /\ CountCalls(calls, "redo") = 0
          /\ CountCalls(calls, "BlockChange.run") = 1
          /\ FirstCall("undo") < FirstCall("BlockChange.run")
          /\ calls[FirstCall("BlockChange.run")][2] = "backward"

\* A redo that was run, after the undo it needs.
C2_Witness ==
    /\ handler = "run:forward"
    /\ CountCalls(calls, "redo") = 1
    /\ projUndo # <<>>

\* C3: the recompile event that run fires is fired with recordUndo = false,
\* and a run adds no entry to the undo stack: after a run backward the stack
\* has lost the event that was run, after a run forward it has regained it.
C3_RecompileNotRecorded ==
    [][/\ handler' \in {"run:forward", "run:backward"} =>
            /\ Len(fired') = 1
            /\ fired'[1].element = "tilemap-revision"
            /\ fired'[1].recordUndo = FALSE
       /\ handler' = "run:backward" =>
            /\ wsUndo' = SubSeq(wsUndo, 1, Len(wsUndo) - 1)
            /\ wsRedo' = Append(wsRedo, wsUndo[Len(wsUndo)])
       /\ handler' = "run:forward" =>
            /\ wsUndo' = Append(wsUndo, wsRedo[Len(wsRedo)])
            /\ wsRedo' = SubSeq(wsRedo, 1, Len(wsRedo) - 1)]_vars

\* A run backward whose recompile event reached the workspace.
C3_Witness ==
    /\ handler = "run:backward"
    /\ eventsEnabled
    /\ Len(fired) = 1
    /\ ~isNull(fired[1])
    /\ wsRedo # <<>>

\* C4: when isGreyBlock is true showEditor_ does nothing: no editor view is
\* created or shown, no undo snapshot is pushed, and the field's asset with
\* its tileset, pendingEdit and undoRedoState are unchanged.
C4_GreyEditorNoOp ==
    [][handler' = "showEditor_" /\ isGreyBlock =>
          /\ calls' = <<>>
          /\ UNCHANGED <<asset, pendingEdit, undoRedoState, editor, projUndo,
                         projRedo, store, revision, isGreyBlock>>]_vars

\* showEditor_ on a grey field that holds a tilemap whose tileset lacks the
\* project's tiles.
C4_Witness ==
    /\ handler = "showEditor_"
    /\ isGreyBlock
    /\ asset # Undefined
    /\ asset.type = "tilemap"
    /\ asset.tiles # ProjectTiles

\* C5: getValue returns the HTML-unescaped stored value text when isGreyBlock
\* is true, never the text derived from the asset, and getValueText() when
\* isGreyBlock is false.
C5_GetValue ==
    handler = "getValue" =>
        /\ isGreyBlock => returned = htmlUnescape(valueText)
        /\ isGreyBlock /\ htmlUnescape(valueText) # getValueText(Cur) =>
              returned # getValueText(Cur)
        /\ ~isGreyBlock => returned = getValueText(Cur)

\* The value of a grey field whose stored text has an entity, which differs
\* from the stored text and from the asset's text.
C5_Witness ==
    /\ handler = "getValue"
    /\ isGreyBlock
    /\ asset # Undefined
    /\ returned # valueText
    /\ returned # getValueText(Cur)

\* updateAssetMeta's case for a copy: the asset is temporary, lacks this
\* block's id and names a block that is alive.
NeedsDuplicate(a) ==
    /\ a # Undefined
    /\ a.displayName = ""
    /\ ThisBlock \notin Range(a.blockIDs)
    /\ \E id \in Range(a.blockIDs) : getBlockById(id)

\* C6: in updateAssetMeta, when the field's asset is temporary, its blockIDs
\* lacks this block's id and names a block alive in the workspace, the field
\* switches to a duplicate obtained from the project whose blockIDs is exactly
\* [this block's id], and the original's blockIDs is not modified.  (Checked
\* where parseValueText adopts the project's asset and calls updateAssetMeta.)
C6_TemporaryAssetIsCopied ==
    [][LET existing == LookupIn(store, blockData)
       IN  /\ handler' = "onValueChanged"
           /\ hasSourceBlock /\ ~isInFlyout
           /\ NeedsDuplicate(existing)
           =>
           /\ asset'.id # existing.id
           /\ store[asset'.id] = Undefined
           /\ asset' = [existing EXCEPT !.id = asset'.id, !.blockIDs = <<ThisBlock>>]
           /\ store'[asset'.id] = asset'
           /\ store'[existing.id] = existing
           /\ blockData' = asset'.id]_vars

\* A field that took a copy of another block's temporary asset.
C6_Witness ==
    /\ handler = "onValueChanged"
    /\ CountCalls(calls, "duplicateAsset") = 1
    /\ asset.blockIDs = <<ThisBlock>>
    /\ \E id \in AssetIds :
          /\ id # asset.id
          /\ store[id] # Undefined
          /\ store[id].blockIDs = <<OtherBlock>>
          /\ store[id].data = asset.data

\* C7: when the editor is hidden with a result that is not assetEquals to the
\* field's asset, the field's asset becomes that result and, if the field has
\* a source block and events are enabled, exactly one BlocklyTilemapChange is
\* fired, with the field value read before the asset was replaced as old
\* value, the field value after as new value, the project revision before the
\* commit as oldRevision and the project revision after it as newRevision.
C7_CommitFiresOneChange ==
    [][/\ handler' = "onHide"
       /\ given' # Undefined
       /\ ~assetEquals(asset, given')
       =>
       /\ asset' = given'
       /\ IF hasSourceBlock /\ eventsEnabled
          THEN fired' = <<BlocklyTilemapChange("field", getValue(Cur), getValue(Cur'),
                                               revision, revision')>>
          ELSE fired' = <<>>]_vars

\* A commit whose event carries two different values and two different
\* revisions.
C7_Witness ==
    /\ handler = "onHide"
    /\ asset = given
    /\ Len(fired) = 1
    /\ fired[1].kind = "BlocklyTilemapChange"
    /\ fired[1].oldValue # fired[1].newValue
    /\ fired[1].oldRevision # fired[1].newRevision
    /\ fired[1].newRevision = revision

\* C8: pendingEdit is false in every state between handlers; it is true only
\* inside the commit of the hide handler, and a run of the listener while it
\* is true leaves the field's asset unchanged and does not redraw the preview.
C8_PendingEditOnlyInCommit ==
    /\ pendingEdit = FALSE
    /\ \A i \in 1..Len(invocations) :
          LET v == invocations[i]
          IN  v.pendingEdit =>
                 /\ handler = "onHide"
                 /\ v.after = v.before
                 /\ v.redraws = 0

\* The project called the listener in the middle of a commit.
C8_Witness ==
    /\ handler = "onHide"
    /\ \E i \in 1..Len(invocations) : invocations[i].pendingEdit

\* C9: the field's listener is registered with the project at most once;
\* after updateAssetListener (the last step of parseValueText, and the step
\* of a commit that follows the adoption of the result) it is registered on
\* the field's asset if there is one and not at all otherwise; after
\* onDispose it is not registered.
C9_ListenerRegisteredOnce ==
    /\ Len(listeners) <= 1
    /\ handler = "onDispose" => listeners = <<>>
    /\ /\ handler \in {"onValueChanged", "run:forward", "run:backward"}
       /\ hasSourceBlock /\ ~isInFlyout
       => listeners = IF asset # Undefined THEN <<Registration(asset)>> ELSE <<>>
    /\ handler = "onHide" /\ CountCalls(calls, "removeChangeListener") > 0
       => listeners = <<Registration(given)>>

\* The listener moved from one asset to another.
C9_Witness ==
    /\ handler = "onValueChanged"
    /\ CountCalls(calls, "removeChangeListener") = 1
    /\ CountCalls(calls, "addChangeListener") = 1
    /\ listeners = <<Registration(asset)>>
    /\ asset.id = IdName[2]
    /\ store[IdName[1]] # Undefined

\* The asset that updateAssetMeta makes of the asset e that the field adopts
WithThisBlock(e) ==
    IF ThisBlock \in Range(e.blockIDs) THEN e
    ELSE [e EXCEPT !.blockIDs = Append(@, ThisBlock)]

\* C10: in parseValueText for a block that is not in the flyout, if the
\* project has an asset for the block's stored id the field adopts it and
\* createNewAsset is not called; otherwise the stored id is cleared and this
\* block's id is removed from the previous asset's blockIDs, the previous
\* asset being written back to the project, before a new asset is created
\* from the text and adopted.
C10_ParseAdoptsOrCreates ==
    [][LET existing == LookupIn(store, blockData)
           text == htmlUnescape(calls'[1][2])
           create == FirstCallIn(calls', "createNewAsset")
           write == FirstCallIn(calls', "updateAsset")
       IN  /\ handler' = "onValueChanged"
           /\ hasSourceBlock /\ ~isInFlyout
           =>
           /\ existing # Undefined =>
                 /\ create = 0
                 /\ NeedsDuplicate(existing) \/ asset' = WithThisBlock(existing)
           /\ existing = Undefined =>
                 /\ CountCalls(calls', "createNewAsset") = 1
                 /\ calls'[create][2] = NullData
                 /\ asset # Undefined =>
                       /\ write # 0 /\ write < create
                       /\ calls'[write][2] = asset.id
                       /\ asset'.id # asset.id =>
                             store'[asset.id] =
                                [asset EXCEPT !.blockIDs = Filter(@, ThisBlock)]
                 /\ text \in {LitText(d) : d \in Data} =>
                       /\ asset'.data = text[2]
                       /\ asset'.displayName = ""
                       /\ asset'.blockIDs = <<ThisBlock>>
                       /\ store[asset'.id] = Undefined
                 /\ asset' # Undefined => blockData' = asset'.id
                 /\ asset' = Undefined => blockData' = NullData]_vars

\* A field whose stored id had gone from the project let go of its previous
\* asset and took a new one.
C10_Witness ==
    /\ handler = "onValueChanged"
    /\ CountCalls(calls, "createNewAsset") = 1
    /\ FirstCall("updateAsset") # 0
    /\ FirstCall("updateAsset") < FirstCall("createNewAsset")
    /\ asset # Undefined
    /\ blockData = asset.id
    /\ \E id \in AssetIds :
          /\ id # asset.id
          /\ id = calls[FirstCall("updateAsset")][2]
          /\ store[id] # Undefined
          /\ ThisBlock \notin Range(store[id].blockIDs)

\* C11: disposeOfTemporaryAsset (the first step of onDispose) removes the
\* field's asset from the project, sets the block's stored id to the empty
\* string and clears the field's asset exactly when the asset is temporary;
\* when the asset has a display name it stays in the project and the field's
\* asset and the block's stored id are unchanged.
C11_DisposeOfTemporaryAsset ==
    [][handler' = "onDispose" =>
          IF asset # Undefined /\ asset.displayName = ""
          THEN /\ CountCalls(calls', "removeAsset") = 1
               /\ calls'[FirstCallIn(calls', "removeAsset")][2] = asset.id
               /\ store' = [store EXCEPT ![asset.id] = Undefined]
               /\ blockData' = ""
               /\ asset' = Undefined
          ELSE /\ CountCalls(calls', "removeAsset") = 0
               /\ UNCHANGED <<store, asset, blockData>>]_vars

\* A disposed field whose temporary asset, which the project held, was
\* removed while another asset stayed.
C11_Witness ==
    /\ handler = "onDispose"
    /\ CountCalls(calls, "removeAsset") = 1
    /\ asset = Undefined
    /\ blockData = ""
    /\ store[calls[FirstCall("removeAsset")][2]] = Undefined
    /\ \E id \in AssetIds : store[id] # Undefined

\* C12: isNull is true only when oldRevision equals newRevision and the base
\* block change is null (the old value equals the new value); an event of an
\* edit that changed the project revision is not treated as null, even with an
\* unchanged value: it is recorded, where a null event is dropped.
C12_IsNull ==
    [][handler' = "fire" =>
          LET ev == fired'[1]
          IN  /\ isNull(ev) =>
                    /\ ev.oldRevision = ev.newRevision
                    /\ ev.oldValue = ev.newValue
                    /\ UNCHANGED <<wsUndo, wsRedo>>
              /\ ev.oldRevision # ev.newRevision =>
                    /\ ~isNull(ev)
                    /\ wsUndo' = Newest(Append(wsUndo, ev))
                    /\ wsRedo' = <<>>]_vars

\* An event with an unchanged value and a changed revision that was recorded.
C12_Witness ==
    /\ handler = "fire"
    /\ fired[1].oldValue = fired[1].newValue
    /\ fired[1].oldRevision # fired[1].newRevision
    /\ wsUndo # <<>>
    /\ wsUndo[Len(wsUndo)] = fired[1]

\* What a showEditor_ that opens the editor does: the view is created, the
\* persistent state of a previous commit, if there is one, is restored into
\* it, one snapshot of the project is pushed, and the view is shown.
OpensWithOneSnapshot ==
    /\ CountCalls(calls', "getFieldEditorView") = 1
    /\ CountCalls(calls', "pushUndo") = 1
    /\ CountCalls(calls', "show") = 1
    /\ FirstCallIn(calls', "getFieldEditorView") < FirstCallIn(calls', "pushUndo")
    /\ FirstCallIn(calls', "pushUndo") < FirstCallIn(calls', "show")
    /\ projUndo' = Newest(Append(projUndo, [store |-> store, revision |-> revision]))
    /\ editor'.open
    /\ CountCalls(calls', "restorePersistentData") = IF undoRedoState # "" THEN 1 ELSE 0
    /\ editor'.restored = undoRedoState

\* undoRedoState is changed by nothing but a committed edit.
PersistentStateOnlyByCommit ==
    undoRedoState' # undoRedoState =>
        /\ handler' = "onHide"
        /\ given' # Undefined
        /\ ~assetEquals(asset, given')

\* C13: each call of showEditor_ on a non-grey field pushes exactly one undo
\* snapshot on the project, after the editor view is created and before it is
\* shown; undoRedoState is changed only by a committed edit, and is restored
\* into the view on open only if a previous edit was committed.
C13_ShowEditorPushesUndo ==
    [][/\ handler' = "showEditor_" /\ ~isGreyBlock => OpensWithOneSnapshot
       /\ PersistentStateOnlyByCommit]_vars

\* C13 for a field that has an asset: the part of the claim that showEditor_
\* keeps.
C13_WithAsset ==
    [][/\ handler' = "showEditor_" /\ ~isGreyBlock /\ asset # Undefined
          => OpensWithOneSnapshot
       /\ PersistentStateOnlyByCommit]_vars

\* The editor opened a second time, after a commit, on the state the commit
\* left.
C13_Witness ==
    /\ handler = "showEditor_"
    /\ CountCalls(calls, "pushUndo") = 1
    /\ CountCalls(calls, "restorePersistentData") = 1
    /\ editor.restored = "p1"
    /\ undoRedoState = "p1"

\* C14: when the editor is hidden with no result, or with a result that is
\* assetEquals to the field's asset, the field's asset, pendingEdit and
\* undoRedoState are unchanged, the project asset is not updated, and no
\* BlocklyTilemapChange is fired.
C14_HideWithoutEdit ==
    [][/\ handler' = "onHide"
       /\ given' = Undefined \/ assetEquals(asset, given')
       =>
       /\ UNCHANGED <<asset, pendingEdit, undoRedoState>>
       /\ UNCHANGED <<store, revision, blockData, listeners>>
       /\ CountCalls(calls', "updateAsset") = 0
       /\ fired' = <<>>
       /\ UNCHANGED <<wsUndo, wsRedo>>]_vars

\* The editor, opened again after a commit, handed back the asset it was
\* given.
C14_Witness ==
    /\ handler = "onHide"
    /\ given # Undefined
    /\ given = asset
    /\ undoRedoState = "p1"
    /\ fired = <<>>
    /\ wsUndo # <<>>

\* How often this block's id occurs in the asset's blockIDs
Occurrences(a) == Cardinality({i \in 1..Len(a.blockIDs) : a.blockIDs[i] = ThisBlock})

\* C15: after updateAssetMeta (in parseValueText, and in a commit) on a field
\* that has an asset and a source block, the block's id occurs exactly once
\* in the asset's blockIDs and the block's stored id is the asset's id; a
\* repeated call does not add the id a second time.
C15_BlockIdOnce ==
    /\ /\ handler \in {"onValueChanged", "run:forward", "run:backward"}
       /\ hasSourceBlock /\ ~isInFlyout
       /\ asset # Undefined
       => Occurrences(asset) = 1 /\ blockData = asset.id
    /\ /\ handler = "onHide"
       /\ CountCalls(calls, "updateAsset") > 0
       /\ hasSourceBlock
       => Occurrences(asset) = 1 /\ blockData = asset.id
    /\ \A id \in AssetIds :
          store[id] # Undefined => Occurrences(store[id]) <= 1

\* A commit of a result that came with this block's id: updateAssetMeta ran
\* on it and left its blockIDs as they were.
C15_Witness ==
    /\ handler = "onHide"
    /\ CountCalls(calls, "updateAsset") = 1
    /\ asset = given
    /\ Occurrences(asset) = 1
    /\ Len(asset.blockIDs) = 2
    /\ blockData = asset.id
    /\ store[asset.id] = asset

====
